---- MODULE Spec2Model ----
(***************************************************************************)
(* Model of alacritty/src/renderer/rects.rs: the decoration accumulator    *)
(* (RenderLines), the geometry compiler (RenderLine::rects) and the batch  *)
(* renderer (RectRenderer).                                                *)
(***************************************************************************)
EXTENDS Integers, Sequences, FiniteSets, TLC

(***************************************************************************)
(* Bounds of the model.                                                    *)
(***************************************************************************)
\* Number of update() calls explored per frame.
MaxCells == 2
\* Largest column index of the grid the accumulator is fed from.
LastCol == 2
\* Number of rects in the list passed to one draw() call.
MaxRects == 2

\* Largest row index of a segment handed to the geometry compiler.
GeomMaxLine == 2
\* Last visible column of the geometry compiler's grid (size.last_column()).
GeomLastCol == 4

\* Rows of the grid the accumulator is fed from.
GridLines == 0..1

Colors == {"RED", "BLUE"}

(***************************************************************************)
(* alacritty_terminal::term::cell::Flags, as sets of bit names.            *)
(***************************************************************************)
UNDERLINE == {"UNDERLINE"}
DOUBLE_UNDERLINE == {"DOUBLE_UNDERLINE"}
STRIKEOUT == {"STRIKEOUT"}
UNDERCURL == {"UNDERCURL"}
DOTTED_UNDERLINE == {"DOTTED_UNDERLINE"}
DASHED_UNDERLINE == {"DASHED_UNDERLINE"}
ROUNDED_BACKGROUND == {"ROUNDED_BACKGROUND"}
WIDE_CHAR == {"WIDE_CHAR"}

\* The seven flags update() passes to update_flag, in call order.
DecoFlags ==
    << UNDERLINE, DOUBLE_UNDERLINE, STRIKEOUT, UNDERCURL,
       DOTTED_UNDERLINE, DASHED_UNDERLINE, ROUNDED_BACKGROUND >>

DecoFlagSet == { DecoFlags[i] : i \in 1..Len(DecoFlags) }

\* A test that every cell passes.
contains_always(flags, flag) == TRUE

\* Flags::contains
contains(flags, flag) == flag \subseteq flags

VARIABLES
    inner,      \* RenderLines.inner: HashMap<Flags, Vec<RenderLine>>
    fed,        \* the cells passed to update() since RenderLines::new()
    rr,         \* RectRenderer value: "none", "alive", "failed" (new returned Err), "dropped"
    vao,        \* RectRenderer.vao
    vbo,        \* RectRenderer.vbo
    programs,   \* RectRenderer.programs, indexed by RectKind
    vertices,   \* RectRenderer.vertices, indexed by RectKind
    err,        \* the error new() returned
    compiles,   \* the RectShaderProgram::new calls made by new(), with their outcome
    gl,         \* GL objects: live vertex arrays and buffers, and the delete calls made
    glLog,      \* the GL calls of the last draw()
    drawn,      \* whether draw() has been called
    lastRects,  \* the rects passed to the last draw()
    gLine,      \* RenderLine::rects: self
    gFlag,      \* RenderLine::rects: flag
    gMetrics,   \* RenderLine::rects: metrics
    gSize,      \* RenderLine::rects: size
    gOut,       \* what RenderLine::rects returned (or that it panicked)
    gDone       \* whether RenderLine::rects has run

accVars == << inner, fed >>
rendVars == << rr, vao, vbo, programs, vertices, err, compiles, gl, glLog, drawn, lastRects >>
geomVars == << gLine, gFlag, gMetrics, gSize, gOut, gDone >>
vars == << accVars, rendVars, geomVars >>

(***************************************************************************)
(* Decoration accumulator: RenderLines.                                    *)
(***************************************************************************)
Point(line, column) == [line |-> line, column |-> column]

Points == { Point(l, c) : l \in GridLines, c \in 0..LastCol }

\* Flag sets a fed cell may carry: one decoration, a wide character with a
\* decoration, and two decorations at once.  update() runs the same
\* update_flag for all seven flags; only STRIKEOUT resolves its color
\* differently.
CellFlagSets ==
    { UNDERLINE, STRIKEOUT, UNDERLINE \cup WIDE_CHAR, UNDERLINE \cup STRIKEOUT }

\* RenderableCell: the fields update_flag reads.
Cells == [ point : Points, flags : CellFlagSets, fg : Colors, underline : Colors ]

\* The lines stored for a flag (none when the key is absent).
Lines(map, flag) == IF flag \in DOMAIN map THEN map[flag] ELSE << >>

\* segment_color with the underline color taken for every flag.
segment_color_underline_only(cell, flag) == cell.underline

\* "The underline color escape does not apply to strikeout."
segment_color(cell, flag) ==
    IF contains(flag, STRIKEOUT) THEN cell.fg ELSE cell.underline

\* segment_end with two spacer columns after a wide char.
segment_end_two_spacers(cell) ==
    IF contains(cell.flags, WIDE_CHAR)
    THEN [cell.point EXCEPT !.column = @ + 2]
    ELSE cell.point

\* segment_end without the wide char spacer.
segment_end_without_spacer(cell) == cell.point

\* "Include wide char spacer if the current cell is a wide char."
segment_end(cell) ==
    IF contains(cell.flags, WIDE_CHAR)
    THEN [cell.point EXCEPT !.column = @ + 1]
    ELSE cell.point

\* extends_line without the color comparison.
extends_line_any_color(line, cell, color) ==
    /\ cell.point.column = line.end.column + 1
    /\ cell.point.line = line.end.line

\* extends_line without the row comparison.
extends_line_any_row(line, cell, color) ==
    /\ color = line.color
    /\ cell.point.column = line.end.column + 1

\* The condition under which the active line is extended.
extends_line(line, cell, color) ==
    /\ color = line.color
    /\ cell.point.column = line.end.column + 1
    /\ cell.point.line = line.end.line

update_flag(map, cell, flag) ==
    IF ~contains(cell.flags, flag) THEN map
    ELSE
      LET color == segment_color(cell, flag)
          end == segment_end(cell)
          active == flag \in DOMAIN map /\ Len(map[flag]) > 0
      IN  IF active /\ extends_line(map[flag][Len(map[flag])], cell, color)
          THEN [map EXCEPT ![flag] = [@ EXCEPT ![Len(@)].end = end]]
          ELSE
            LET line == [start |-> cell.point, end |-> end, color |-> color]
            IN  IF flag \in DOMAIN map
                THEN [map EXCEPT ![flag] = Append(@, line)]
                ELSE map @@ (flag :> << line >>)

RECURSIVE update_from(_, _, _)
update_from(map, cell, i) ==
    IF i > Len(DecoFlags) THEN map
    ELSE update_from(update_flag(map, cell, DecoFlags[i]), cell, i + 1)

update(map, cell) == update_from(map, cell, 1)

EmptyMap == [f \in {} |-> << >>]

AccStart ==
    /\ inner = EmptyMap
    /\ fed = << >>

\* RenderLines::new(): a fresh accumulator for the next frame.
RenderLinesNew ==
    /\ inner' = EmptyMap
    /\ fed' = << >>
    /\ UNCHANGED << rendVars, geomVars >>

\* RenderLines::update(cell)
Update ==
    /\ Len(fed) < MaxCells
    /\ \E cell \in Cells :
         /\ inner' = update(inner, cell)
         /\ fed' = Append(fed, cell)
    /\ UNCHANGED << rendVars, geomVars >>

(***************************************************************************)
(* RectKind and RenderRect.                                                *)
(***************************************************************************)
Underline == 0
Undercurl == 1
UnderDotted == 2
UnderDashed == 3
RoundedBg == 4
NumKinds == 5

\* Indices of the per-kind arrays ([_; RectKind::NumKinds as usize]).
KindIndex == 0..(NumKinds - 1)

\* A rect created with the Undercurl kind.
RenderRect_new_undercurl(x, y, width, height, color, alpha) ==
    [ kind |-> Undercurl, x |-> x, y |-> y, width |-> width, height |-> height,
      color |-> color, alpha |-> alpha ]

RenderRect_new(x, y, width, height, color, alpha) ==
    [ kind |-> Underline, x |-> x, y |-> y, width |-> width, height |-> height,
      color |-> color, alpha |-> alpha ]

(***************************************************************************)
(* Batch renderer: RectShaderProgram and RectRenderer.                     *)
(***************************************************************************)
\* The fragment shader define selected for a kind.
shader_header(kind) ==
    CASE kind = RoundedBg -> "#define DRAW_ROUNDED_BACKGROUND"
      [] kind = Undercurl -> "#define DRAW_UNDER_CURL"
      [] kind = UnderDotted -> "#define DRAW_UNDER_DOTTED"
      [] kind = UnderDashed -> "#define DRAW_UNDER_DASHED"
      [] OTHER -> "None"

\* RectShaderProgram::new with the compile error dropped: a program comes back
\* whatever ShaderProgram::new answered.
RectShaderProgram_new_unchecked(kind, compiled, id) ==
    [ ok |-> TRUE, program |-> [ header |-> shader_header(kind), id |-> id ],
      call |-> [ kind |-> kind, ok |-> compiled ] ]

\* RectShaderProgram::new: `compiled` is the answer of ShaderProgram::new,
\* `id` the GL name of the program it makes.
RectShaderProgram_new(kind, compiled, id) ==
    IF compiled
    THEN [ ok |-> TRUE, program |-> [ header |-> shader_header(kind), id |-> id ],
           call |-> [ kind |-> kind, ok |-> TRUE ] ]
    ELSE [ ok |-> FALSE, err |-> [ kind |-> kind, call |-> id ],
           call |-> [ kind |-> kind, ok |-> FALSE ] ]

\* The fallback compiling the dotted variant once more.
fallback_kind_dotted == UnderDotted

\* The kind compiled when the dotted shader does not compile.
fallback_kind == Underline

\* The compile calls RectRenderer::new makes, in order; answer[n] is what the
\* n-th call to the shader compiler returns.  The result is Err at the first
\* `?` that fails, else the five programs.
RectRenderer_new(answer) ==
    LET ul == RectShaderProgram_new(Underline, answer[1], 1)
        uc == RectShaderProgram_new(Undercurl, answer[2], 2)
        ud == RectShaderProgram_new(UnderDotted, answer[3], 3)
        fb == RectShaderProgram_new(fallback_kind, answer[4], 4)
        n == IF ud.ok THEN 3 ELSE 4
        dotted == IF ud.ok THEN << ud.call >> ELSE << ud.call, fb.call >>
        da == RectShaderProgram_new(UnderDashed, answer[n + 1], n + 1)
        rb == RectShaderProgram_new(RoundedBg, answer[n + 2], n + 2)
        Err(e, calls) == [ ok |-> FALSE, err |-> e, compiles |-> calls ]
    IN  IF ~ul.ok THEN Err(ul.err, << ul.call >>)
        ELSE IF ~uc.ok THEN Err(uc.err, << ul.call, uc.call >>)
        ELSE IF ~ud.ok /\ ~fb.ok THEN Err(fb.err, << ul.call, uc.call >> \o dotted)
        ELSE IF ~da.ok THEN Err(da.err, << ul.call, uc.call >> \o dotted \o << da.call >>)
        ELSE IF ~rb.ok
             THEN Err(rb.err, << ul.call, uc.call >> \o dotted \o << da.call, rb.call >>)
        ELSE [ ok |-> TRUE,
               programs |->
                   (Underline :> ul.program)
                   @@ (Undercurl :> uc.program)
                   @@ (UnderDotted :> IF ud.ok THEN ud.program ELSE fb.program)
                   @@ (UnderDashed :> da.program)
                   @@ (RoundedBg :> rb.program),
               compiles |-> << ul.call, uc.call >> \o dotted \o << da.call, rb.call >> ]

\* gl::GenVertexArrays / gl::GenBuffers: a name not in use.
gl_gen(used) == Cardinality(used) + 1

\* gl::DeleteBuffers / gl::DeleteVertexArrays of one name.
gl_delete(g, target, name) ==
    [ g EXCEPT ![target] = @ \ {name},
               !.deleted = Append(@, [ target |-> target, name |-> name ]) ]

\* drop releasing the buffer only.
drop_buffer_only(g, a, b) == gl_delete(g, "buffers", b)

\* Drop for RectRenderer
drop(g, a, b) == gl_delete(gl_delete(g, "buffers", b), "arrays", a)

\* Rgb::as_tuple
as_tuple(color) ==
    IF color = "RED" THEN << 255, 0, 0 >> ELSE << 0, 0, 255 >>

\* `as u8` of a non-negative float: truncates and saturates.
as_u8(x100) ==
    LET t == x100 \div 100 IN IF t > 255 THEN 255 ELSE IF t < 0 THEN 0 ELSE t

\* add_rect with the two triangles fanned from the first corner.
add_rect_fan(vs, center_x, center_y, rect) ==
    LET x == rect.x - center_x
        y == center_y - rect.y
        width == rect.width
        height == rect.height
        rgb == as_tuple(rect.color)
        a == as_u8(rect.alpha * 255)
        V(vx, vy) == [ x |-> vx, y |-> vy, r |-> rgb[1], g |-> rgb[2], b |-> rgb[3], a |-> a ]
        quad == << V(x, y), V(x, y - height), V(x + width, y), V(x + width, y - height) >>
    IN  vs \o << quad[1], quad[2], quad[3], quad[1], quad[3], quad[4] >>

\* add_rect.  Pixel coordinates are integers and alpha is in hundredths; the
\* normalized device coordinates x / center_x - 1 and -y / center_y + 1 are
\* kept as their numerators over center_x and center_y.
add_rect(vs, center_x, center_y, rect) ==
    LET x == rect.x - center_x
        y == center_y - rect.y
        width == rect.width
        height == rect.height
        rgb == as_tuple(rect.color)
        a == as_u8(rect.alpha * 255)
        V(vx, vy) == [ x |-> vx, y |-> vy, r |-> rgb[1], g |-> rgb[2], b |-> rgb[3], a |-> a ]
        quad == << V(x, y), V(x, y - height), V(x + width, y), V(x + width, y - height) >>
    IN  vs \o << quad[1], quad[2], quad[3], quad[3], quad[4], quad[2] >>

\* draw() without the clear.
clear_vertices_skipped(vs) == vs

\* self.vertices.iter_mut().for_each(|vertices| vertices.clear())
clear_vertices(vs) == [ k \in DOMAIN vs |-> << >> ]

\* for rect in &rects { add_rect(&mut self.vertices[rect.kind as usize], ..) }
RECURSIVE fill_vertices(_, _, _, _, _)
fill_vertices(vs, center_x, center_y, rects, i) ==
    IF i > Len(rects) THEN vs
    ELSE fill_vertices(
           [ vs EXCEPT ![rects[i].kind] = add_rect(@, center_x, center_y, rects[i]) ],
           center_x, center_y, rects, i + 1)

\* The kinds in ascending order.
draw_order_ascending == [ i \in 1..NumKinds |-> i - 1 ]

\* (RectKind::Underline as u8..RectKind::NumKinds as u8).rev()
draw_order == [ i \in 1..NumKinds |-> NumKinds - i ]

\* The GL calls of the draw loop for the kinds order[i..]; each call is
\* tagged with the loop's rect_kind.
RECURSIVE draw_loop(_, _, _, _)
draw_loop(vs, progs, order, i) ==
    IF i > Len(order) THEN << >>
    ELSE
      LET rect_kind == order[i]
          calls ==
            IF vs[rect_kind] = << >> THEN << >>
            ELSE << [ op |-> "UseProgram", kind |-> rect_kind, arg |-> progs[rect_kind].id ],
                    [ op |-> "update_uniforms", kind |-> rect_kind, arg |-> progs[rect_kind].id ],
                    [ op |-> "BufferData", kind |-> rect_kind, arg |-> vs[rect_kind] ],
                    [ op |-> "DrawArrays", kind |-> rect_kind, arg |-> Len(vs[rect_kind]) ] >>
      IN  calls \o draw_loop(vs, progs, order, i + 1)

\* The viewport of the frames drawn (size_info.width(), size_info.height()).
DrawSize == [ width |-> 80, height |-> 40 ]

\* A decoration rect before the geometry compiler sets its kind.
LineRect == RenderRect_new(0, 18, 30, 2, "RED", 100)

\* Rects callers build with RenderRect::new and hand to draw() as they are.
PlainRects == { LineRect, RenderRect_new(10, 8, 20, 1, "BLUE", 50) }

\* The rects a frame may hold: plain ones, and a decoration rect of each kind.
RectInputs == PlainRects \cup { [ LineRect EXCEPT !.kind = k ] : k \in KindIndex }

RectLists == UNION { [ 1..n -> RectInputs ] : n \in 0..MaxRects }

RendStart ==
    /\ rr = "none"
    /\ vao = 0
    /\ vbo = 0
    /\ programs = << >>
    /\ vertices = << >>
    /\ err = [ kind |-> NumKinds, call |-> 0 ]
    /\ compiles = << >>
    /\ gl = [ arrays |-> {}, buffers |-> {}, deleted |-> << >> ]
    /\ glLog = << >>
    /\ drawn = FALSE
    /\ lastRects = << >>

\* RectRenderer::new
New ==
    /\ rr = "none"
    /\ \E answer \in [ 1..6 -> BOOLEAN ] :
         LET res == RectRenderer_new(answer)
             a == gl_gen(gl.arrays)
             b == gl_gen(gl.buffers)
         IN  /\ compiles' = res.compiles
             /\ IF res.ok
                THEN /\ rr' = "alive"
                     /\ gl' = [ gl EXCEPT !.arrays = @ \cup {a}, !.buffers = @ \cup {b} ]
                     /\ vao' = a
                     /\ vbo' = b
                     /\ programs' = res.programs
                     /\ vertices' = [ k \in KindIndex |-> << >> ]
                     /\ UNCHANGED err
                ELSE /\ rr' = "failed"
                     /\ err' = res.err
                     /\ UNCHANGED << gl, vao, vbo, programs, vertices >>
    /\ UNCHANGED << glLog, drawn, lastRects, accVars, geomVars >>

\* RectRenderer::draw
Draw ==
    /\ rr = "alive"
    /\ \E rects \in RectLists :
         LET center_x == DrawSize.width \div 2
             center_y == DrawSize.height \div 2
             filled == fill_vertices(clear_vertices(vertices), center_x, center_y, rects, 1)
         IN  /\ vertices' = filled
             /\ glLog' =
                  << [ op |-> "BindVertexArray", kind |-> NumKinds, arg |-> vao ],
                     [ op |-> "BindBuffer", kind |-> NumKinds, arg |-> vbo ] >>
                  \o draw_loop(filled, programs, draw_order, 1)
                  \o << [ op |-> "UseProgram", kind |-> NumKinds, arg |-> 0 ],
                        [ op |-> "BindBuffer", kind |-> NumKinds, arg |-> 0 ],
                        [ op |-> "BindVertexArray", kind |-> NumKinds, arg |-> 0 ] >>
             /\ lastRects' = rects
    /\ drawn' = TRUE
    /\ UNCHANGED << rr, vao, vbo, programs, err, compiles, gl, accVars, geomVars >>

\* Drop for RectRenderer: the renderer value goes out of scope.
Drop ==
    /\ rr = "alive"
    /\ rr' = "dropped"
    /\ gl' = drop(gl, vao, vbo)
    /\ UNCHANGED << vao, vbo, programs, vertices, err, compiles, glLog, drawn, lastRects,
                    accVars, geomVars >>

(***************************************************************************)
(* Geometry compiler: RenderLine::rects.  f32 quantities are integers in   *)
(* eighths of a pixel; metrics and sizes are drawn in half pixels, so that *)
(* 0.25 * descent and thickness / 2 are exact.                             *)
(***************************************************************************)
\* n half pixels.
Half(n) == 4 * n

\* n whole pixels.
Px(n) == 8 * n

Abs(v) == IF v < 0 THEN -v ELSE v

\* A maximum that keeps its first operand.
Max_first(a, b) == a

\* f32::max
Max(a, b) == IF a >= b THEN a ELSE b

\* Rounding towards minus infinity.
Round_floor(v) == Px(v \div Px(1))

\* f32::round: to the nearest whole pixel, halves away from zero.
Round(v) ==
    IF v >= 0 THEN Px((v + Half(1)) \div Px(1)) ELSE -Px((Half(1) - v) \div Px(1))

\* The position left where the rounding put it.
clamp_y_skipped(y, max_y) == y

\* "Make sure lines are always visible."
clamp_y(y, max_y) == IF y > max_y THEN max_y ELSE y

create_rect(size, descent, start, end, position, thickness0, color) ==
    LET start_x == start.column * size.cell_width
        end_x == (end.column + 1) * size.cell_width
        width == end_x - start_x
        thickness == Max(thickness0, Px(1))
        line_bottom == (start.line + 1) * size.cell_height
        baseline == line_bottom + descent
        y0 == Round(baseline - position - thickness \div 2)
        max_y == line_bottom - thickness
        y == clamp_y(y0, max_y)
    IN  RenderRect_new(start_x + size.padding_x, y + size.padding_y, width, thickness,
                       color, 100)

\* The two positions taken the other way round.
double_underline_positions_swapped(descent) ==
    [ top_pos |-> (3 * descent) \div 4, bottom_pos |-> descent \div 4 ]

\* "Position underlines so each one has 50% of descent available."
double_underline_positions(descent) ==
    [ top_pos |-> descent \div 4, bottom_pos |-> (3 * descent) \div 4 ]

\* An unknown flag skipped without a panic.
Panicked_ignored == [ panic |-> FALSE, rects |-> << >> ]

\* What push_rects leaves in `rects`; unimplemented!() panics.
Panicked == [ panic |-> TRUE, rects |-> << >> ]

push_rects(acc, metrics, size, flag, start, end, color) ==
    LET Rect(position, thickness, ty) ==
            [ create_rect(size, metrics.descent, start, end, position, thickness, color)
                EXCEPT !.kind = ty ]
        Push(rs) == [ acc EXCEPT !.rects = @ \o rs ]
    IN  IF acc.panic THEN acc
        ELSE IF flag = DOUBLE_UNDERLINE
        THEN LET top_pos == double_underline_positions(metrics.descent).top_pos
                 bottom_pos == double_underline_positions(metrics.descent).bottom_pos
             IN  Push(<< create_rect(size, metrics.descent, start, end, top_pos,
                                     metrics.underline_thickness, color),
                         Rect(bottom_pos, metrics.underline_thickness, Underline) >>)
        ELSE IF flag = UNDERCURL
        THEN Push(<< Rect(metrics.descent, Abs(metrics.descent), Undercurl) >>)
        ELSE IF flag = UNDERLINE
        THEN Push(<< Rect(metrics.underline_position, metrics.underline_thickness,
                          Underline) >>)
        ELSE IF flag = DOTTED_UNDERLINE
        THEN Push(<< Rect(metrics.descent, Abs(metrics.descent), UnderDotted) >>)
        ELSE IF flag = DASHED_UNDERLINE
        THEN Push(<< Rect(metrics.underline_position, metrics.underline_thickness,
                          UnderDashed) >>)
        ELSE IF flag = STRIKEOUT
        THEN Push(<< Rect(metrics.strikeout_position, metrics.strikeout_thickness,
                          Underline) >>)
        ELSE IF flag = ROUNDED_BACKGROUND
        THEN Push(<< Rect(metrics.descent, size.cell_height, RoundedBg) >>)
        ELSE Panicked

\* The next row entered at the column of the row before.
next_row_start_same_column(start) == Point(start.line + 1, start.column)

\* The start of the next row's sub-segment.
next_row_start(start) == Point(start.line + 1, 0)

\* The while loop of RenderLine::rects and the push after it.
RECURSIVE rects_loop(_, _, _, _, _, _)
rects_loop(acc, start, line, flag, metrics, size) ==
    IF start.line < line.end.line
    THEN rects_loop(
           push_rects(acc, metrics, size, flag, start,
                      Point(start.line, size.last_column), line.color),
           next_row_start(start), line, flag, metrics, size)
    ELSE push_rects(acc, metrics, size, flag, start, line.end, line.color)

RenderLine_rects(line, flag, metrics, size) ==
    rects_loop([ panic |-> FALSE, rects |-> << >> ], line.start, line, flag, metrics, size)

\* crossfont::Metrics, in half pixels.
Metrics(d, up, ut, sp, st) ==
    [ descent |-> Half(d),
      underline_position |-> Half(up),
      underline_thickness |-> Half(ut),
      strikeout_position |-> Half(sp),
      strikeout_thickness |-> Half(st) ]

MetricsSet ==
    { Metrics(-8, -4, 2, 12, 2),
      Metrics(-7, -3, 1, 11, 3),
      Metrics(-6, -2, 4, 10, 0),
      Metrics(0, -12, 0, 0, -2),
      Metrics(3, 2, 5, -4, 1) }

\* SizeInfo, in half pixels; last_column() is the last visible column.
SizeInfo(cell_width, cell_height, padding_x, padding_y) ==
    [ cell_width |-> Half(cell_width), cell_height |-> Half(cell_height),
      padding_x |-> Half(padding_x), padding_y |-> Half(padding_y),
      last_column |-> GeomLastCol ]

SizeSet ==
    { SizeInfo(20, 40, 0, 0), SizeInfo(18, 34, 10, 6), SizeInfo(15, 3, 1, 0) }

\* Segments handed to the compiler: single-row ones as the accumulator makes
\* them, and ones that end on a later row.
GeomLines ==
    { [ start |-> s, end |-> e, color |-> c ] :
        s \in { Point(l, c) : l \in 0..GeomMaxLine, c \in 0..GeomLastCol },
        e \in { Point(l, c) : l \in 0..GeomMaxLine, c \in 0..GeomLastCol },
        c \in {"RED"} }

\* Flag values handed to the compiler: the seven decorations, the empty set
\* and a combination of two.
GeomFlags == DecoFlagSet \cup { {}, UNDERLINE \cup STRIKEOUT }

GeomIdle ==
    /\ gLine = [ start |-> Point(0, 0), end |-> Point(0, 0), color |-> "RED" ]
    /\ gFlag = UNDERLINE
    /\ gMetrics = Metrics(-8, -4, 2, 12, 2)
    /\ gSize = SizeInfo(20, 40, 0, 0)
    /\ gOut = [ panic |-> FALSE, rects |-> << >> ]
    /\ gDone = FALSE

GeomStart ==
    /\ gLine \in { l \in GeomLines :
                     \/ l.start.line < l.end.line
                     \/ l.start.line = l.end.line /\ l.start.column <= l.end.column }
    /\ gFlag \in GeomFlags
    /\ gMetrics \in MetricsSet
    /\ gSize \in SizeSet
    /\ gOut = [ panic |-> FALSE, rects |-> << >> ]
    /\ gDone = FALSE

\* RenderLine::rects on the drawn inputs.
Compile ==
    /\ ~gDone
    /\ gOut' = RenderLine_rects(gLine, gFlag, gMetrics, gSize)
    /\ gDone' = TRUE
    /\ UNCHANGED << gLine, gFlag, gMetrics, gSize, accVars, rendVars >>

(***************************************************************************)
(* Specifications.                                                         *)
(***************************************************************************)
Init == AccStart /\ RendStart /\ GeomIdle

AccNext == RenderLinesNew \/ Update

\* The accumulator over one frame's cells.
AccSpec == Init /\ [][AccNext]_vars

RendNext == New \/ Draw \/ Drop

\* The life of one RectRenderer.
RendSpec == Init /\ [][RendNext]_vars

GeomInit == AccStart /\ RendStart /\ GeomStart

GeomNext == Compile

\* The geometry compiler on every drawn segment, flag, metrics and size.
GeomSpec == GeomInit /\ [][GeomNext]_vars

(***************************************************************************)
(* Properties of the accumulator (checked under AccSpec).                  *)
(***************************************************************************)
\* The column a cell ends at: its own, or the next one for a wide character.
EndColumn(cell) ==
    IF "WIDE_CHAR" \in cell.flags THEN cell.point.column + 1 ELSE cell.point.column

\* The color a flag's segment takes from a cell.
ResolvedColor(cell, f) == IF f = STRIKEOUT THEN cell.fg ELSE cell.underline

LastFed == fed[Len(fed)]

LastLine(map, f) == Lines(map, f)[Len(Lines(map, f))]

\* Every fed cell carries f and lies on the row of the first, with strictly
\* increasing columns.
RunOnOneRow(f) ==
    /\ Len(fed) >= 1
    /\ \A i \in 1..Len(fed) :
         /\ contains(fed[i].flags, f)
         /\ fed[i].point.line = fed[1].point.line
    /\ \A i \in 1..(Len(fed) - 1) : fed[i + 1].point.column > fed[i].point.column

\* fed[i+1] changes the color or skips a column after fed[i].
BreakByColumn(f, i) ==
    \/ ResolvedColor(fed[i + 1], f) # ResolvedColor(fed[i], f)
    \/ fed[i + 1].point.column # fed[i].point.column + 1

\* fed[i+1] changes the color or does not start right after the end of fed[i].
BreakByEnd(f, i) ==
    \/ ResolvedColor(fed[i + 1], f) # ResolvedColor(fed[i], f)
    \/ fed[i + 1].point.column # EndColumn(fed[i]) + 1

\* The single segment spanning the whole run.
WholeRun(f) ==
    << [ start |-> fed[1].point,
         end |-> Point(fed[1].point.line, EndColumn(LastFed)),
         color |-> ResolvedColor(fed[1], f) ] >>

SegmentStartsAt(f, p) ==
    \E j \in 2..Len(Lines(inner, f)) : Lines(inner, f)[j].start = p

\* C1 as stated: a run of cells on one row with the same flag and color and
\* consecutive columns (column + 1 each time) is held as exactly one segment
\* from the first cell to the last; a color change or a skipped column starts a
\* new segment at that cell, leaving more than one segment.
C1_RunByColumns ==
    \A f \in DecoFlagSet :
        RunOnOneRow(f) =>
            IF \A i \in 1..(Len(fed) - 1) : ~BreakByColumn(f, i)
            THEN Lines(inner, f) = WholeRun(f)
            ELSE /\ Len(Lines(inner, f)) > 1
                 /\ \A i \in 1..(Len(fed) - 1) :
                      BreakByColumn(f, i) => SegmentStartsAt(f, fed[i + 1].point)

\* C1 (amended): a run of cells on one row with the same flag and color, each
\* starting one column after the end column of the cell before it (its column,
\* plus one for a wide character), is held as exactly one segment from the
\* first cell to the end column of the last; a color change, or a cell that
\* does not start one column after the end column of the cell before it,
\* starts a new segment at that cell, leaving more than one segment.
C1_RunByEndColumns ==
    \A f \in DecoFlagSet :
        RunOnOneRow(f) =>
            IF \A i \in 1..(Len(fed) - 1) : ~BreakByEnd(f, i)
            THEN Lines(inner, f) = WholeRun(f)
            ELSE /\ Len(Lines(inner, f)) > 1
                 /\ \A i \in 1..(Len(fed) - 1) :
                      BreakByEnd(f, i) => SegmentStartsAt(f, fed[i + 1].point)

\* A wide cell at column 0 and a cell at column 2, merged into one segment.
C1_Witness ==
    /\ Len(fed) = 2
    /\ RunOnOneRow(UNDERLINE)
    /\ contains(fed[1].flags, WIDE_CHAR)
    /\ fed[1].point.column = 0
    /\ fed[2].point.column = 2
    /\ Lines(inner, UNDERLINE) = WholeRun(UNDERLINE)

\* C3: after update() of a cell at column c, the last segment of every flag
\* the cell carries ends at column c + 1 if the cell is a wide character and
\* at column c if it is not.
C3_WideCharEnd ==
    Len(fed) >= 1 =>
        \A f \in DecoFlagSet :
            contains(LastFed.flags, f) =>
                /\ Len(Lines(inner, f)) >= 1
                /\ LastLine(inner, f).end.column =
                     IF contains(LastFed.flags, WIDE_CHAR)
                     THEN LastFed.point.column + 1
                     ELSE LastFed.point.column

\* A wide cell at column 1 has extended the segment begun at column 0.
C3_Witness ==
    /\ Len(fed) = 2
    /\ contains(LastFed.flags, WIDE_CHAR)
    /\ contains(LastFed.flags, UNDERLINE)
    /\ LastFed.point.column = 1
    /\ Len(Lines(inner, UNDERLINE)) = 1
    /\ LastLine(inner, UNDERLINE).start.column = 0
    /\ LastLine(inner, UNDERLINE).end.column = 2

\* C4: every segment held starts and ends on the same row; update() extends
\* the last segment of a flag only with a cell on the row of that segment's
\* end, and a cell on another row starts a segment of its own.
C4_NoMergeAcrossRows ==
    [][ Len(fed') = Len(fed) + 1 =>
          \A f \in DecoFlagSet :
              LET cell == fed'[Len(fed')]
                  old == Lines(inner, f)
                  new == Lines(inner', f)
              IN  /\ \A i \in 1..Len(new) : new[i].start.line = new[i].end.line
                  /\ (Len(new) = Len(old) /\ new # old)
                       => cell.point.line = old[Len(old)].end.line
                  /\ (contains(cell.flags, f) /\ Len(old) >= 1
                        /\ cell.point.line # old[Len(old)].end.line)
                       => /\ Len(new) = Len(old) + 1
                          /\ new[Len(new)].start = cell.point
                          /\ \A i \in 1..Len(old) : new[i] = old[i]
      ]_vars

\* A run from the last column of row 0 to column 0 of row 1, same flag and
\* color, held as one segment per row.
C4_Witness ==
    /\ Len(fed) = 2
    /\ fed[1].point = Point(0, LastCol)
    /\ fed[2].point = Point(1, 0)
    /\ contains(fed[1].flags, UNDERLINE) /\ contains(fed[2].flags, UNDERLINE)
    /\ fed[1].underline = fed[2].underline
    /\ Len(Lines(inner, UNDERLINE)) = 2
    /\ Lines(inner, UNDERLINE)[1].end.line = 0
    /\ Lines(inner, UNDERLINE)[2].start.line = 1

\* C5: the color stored in a segment, and compared to decide merging, is the
\* cell's foreground color for STRIKEOUT and its underline color for every
\* other flag: a cell right after the last segment's end extends it exactly
\* when that color equals the segment's.
C5_SegmentColor ==
    [][ Len(fed') = Len(fed) + 1 =>
          \A f \in DecoFlagSet :
              LET cell == fed'[Len(fed')]
                  old == Lines(inner, f)
                  new == Lines(inner', f)
              IN  contains(cell.flags, f) =>
                    /\ new[Len(new)].color = ResolvedColor(cell, f)
                    /\ (/\ Len(old) >= 1
                        /\ cell.point.line = old[Len(old)].end.line
                        /\ cell.point.column = old[Len(old)].end.column + 1)
                         => (Len(new) = Len(old)
                               <=> ResolvedColor(cell, f) = old[Len(old)].color)
      ]_vars

\* Two adjacent cells with both flags, the same foreground and different
\* underline colors: one STRIKEOUT segment, two UNDERLINE segments.
C5_Witness ==
    /\ Len(fed) = 2
    /\ fed[1].flags = UNDERLINE \cup STRIKEOUT
    /\ fed[2].flags = UNDERLINE \cup STRIKEOUT
    /\ fed[1].point.line = fed[2].point.line
    /\ fed[2].point.column = fed[1].point.column + 1
    /\ fed[1].fg = fed[2].fg
    /\ fed[1].underline # fed[2].underline
    /\ Len(Lines(inner, STRIKEOUT)) = 1
    /\ Len(Lines(inner, UNDERLINE)) = 2

(***************************************************************************)
(* Properties of the batch renderer (checked under RendSpec).              *)
(***************************************************************************)
\* Indices of the calls of one GL entry point in the last draw().
CallsOf(op) == { i \in 1..Len(glLog) : glLog[i].op = op }

\* The program in use at call i of the last draw().
ProgramInUse(i) ==
    LET uses == { j \in CallsOf("UseProgram") : j < i }
    IN  glLog[CHOOSE j \in uses : \A h \in uses : h <= j].arg

\* C2: in every draw() the non-empty buckets are drawn in strictly descending
\* kind order, each with one upload followed by one draw call under that
\* kind's program; empty buckets cause no upload and no draw call; the
\* Underline bucket, which holds every plain rect of RenderRect::new, is drawn
\* after every other one.
C2_DrawOrder ==
    drawn =>
        /\ \A i, j \in CallsOf("DrawArrays") : i < j => glLog[i].kind > glLog[j].kind
        /\ \A k \in KindIndex :
             LET n == IF vertices[k] = << >> THEN 0 ELSE 1
             IN  /\ Cardinality({ i \in CallsOf("BufferData") : glLog[i].kind = k }) = n
                 /\ Cardinality({ i \in CallsOf("DrawArrays") : glLog[i].kind = k }) = n
        /\ \A i \in CallsOf("BufferData") :
             /\ glLog[i].arg = vertices[glLog[i].kind]
             /\ glLog[i + 1].op = "DrawArrays"
             /\ glLog[i + 1].kind = glLog[i].kind
             /\ glLog[i + 1].arg = Len(vertices[glLog[i].kind])
             /\ ProgramInUse(i) = programs[glLog[i].kind].id
        /\ \A i \in CallsOf("DrawArrays") : glLog[i - 1].op = "BufferData"
        /\ \A i, j \in CallsOf("DrawArrays") :
             (glLog[i].kind = Underline /\ glLog[j].kind # Underline) => j < i
        /\ \A r \in PlainRects : r.kind = Underline
        /\ Len(vertices[Underline]) =
             6 * Cardinality({ i \in 1..Len(lastRects) : lastRects[i].kind = Underline })

\* A plain rect listed before a rounded background is drawn after it.
C2_Witness ==
    /\ drawn
    /\ Len(lastRects) = 2
    /\ lastRects[1] \in PlainRects
    /\ lastRects[2].kind = RoundedBg
    /\ Cardinality(CallsOf("DrawArrays")) = 2
    /\ \E i, j \in CallsOf("DrawArrays") :
         i < j /\ glLog[i].kind = RoundedBg /\ glLog[j].kind = Underline

DottedFailed == \E i \in 1..Len(compiles) : compiles[i] = [ kind |-> UnderDotted, ok |-> FALSE ]

\* The renderer was built, its UnderDotted slot holds an Underline-variant
\* program, and a drawn non-empty UnderDotted bucket used it.
DottedFallsBack ==
    /\ rr \in {"alive", "dropped"}
    /\ programs[UnderDotted].header = shader_header(Underline)
    /\ programs[UnderDotted].header # shader_header(UnderDotted)
    /\ (drawn /\ vertices[UnderDotted] # << >>) =>
         \E i \in CallsOf("BufferData") :
             /\ glLog[i].kind = UnderDotted
             /\ ProgramInUse(i) = programs[UnderDotted].id

C7_NewFailsAtomically ==
    \A i \in 1..Len(compiles) :
        (compiles[i].kind \in {Underline, Undercurl, UnderDashed, RoundedBg}
           /\ ~compiles[i].ok)
        => /\ rr = "failed"
           /\ err = [ kind |-> compiles[i].kind, call |-> i ]
           /\ gl = [ arrays |-> {}, buffers |-> {}, deleted |-> << >> ]
           /\ vao = 0 /\ vbo = 0

\* The UnderDashed variant failed after the three before it compiled.
C7_Witness ==
    /\ rr = "failed"
    /\ Len(compiles) = 4
    /\ compiles[4] = [ kind |-> UnderDashed, ok |-> FALSE ]
    /\ err.kind = UnderDashed

Deletions(target, name) ==
    Cardinality({ i \in 1..Len(gl.deleted) :
                    gl.deleted[i] = [ target |-> target, name |-> name ] })

\* C8: the vertex buffer and the vertex array of a constructed renderer are
\* live and unreleased for as long as it can draw, and once it is dropped
\* each has been released exactly once and nothing else has.
C8_ReleasedOnce ==
    /\ rr \in {"none", "failed"} =>
         gl = [ arrays |-> {}, buffers |-> {}, deleted |-> << >> ]
    /\ rr = "alive" =>
         /\ vao # 0 /\ vbo # 0
         /\ gl = [ arrays |-> {vao}, buffers |-> {vbo}, deleted |-> << >> ]
    /\ rr = "dropped" =>
         /\ gl.arrays = {} /\ gl.buffers = {}
         /\ Deletions("arrays", vao) = 1
         /\ Deletions("buffers", vbo) = 1
         /\ Len(gl.deleted) = 2

\* A renderer that drew and was dropped.
C8_Witness ==
    /\ rr = "dropped"
    /\ drawn
    /\ Len(lastRects) >= 1
    /\ Len(gl.deleted) = 2

RECURSIVE QuadsOf(_)
QuadsOf(rs) ==
    IF rs = << >> THEN << >>
    ELSE add_rect(<< >>, DrawSize.width \div 2, DrawSize.height \div 2, Head(rs))
         \o QuadsOf(Tail(rs))

\* The vertices of the rects of one kind, in list order.
Bucket(rs, k) ==
    LET OfKind(r) == r.kind = k IN QuadsOf(SelectSeq(rs, OfKind))

\* C9: after every draw() each per-kind buffer holds exactly the vertices of
\* the rects of that call; a draw() with the rect list of the draw() before it
\* leaves the buffers and the sequence of GL calls as they were.
C9_ClearAndRefill ==
    [][ /\ drawn' => \A k \in KindIndex : vertices'[k] = Bucket(lastRects', k)
        /\ (drawn /\ rr = "alive" /\ rr' = "alive" /\ lastRects' = lastRects)
             => (vertices' = vertices /\ glLog' = glLog)
      ]_vars

\* A draw() of two rects of one kind.
C9_Witness ==
    /\ drawn
    /\ Len(lastRects) = 2
    /\ lastRects[1].kind = lastRects[2].kind
    /\ lastRects[1] # lastRects[2]
    /\ Len(vertices[lastRects[1].kind]) = 12

\* The rects of one kind in the list of the last draw(), in list order.
RectsOfKind(k) ==
    LET OfKind(r) == r.kind = k IN SelectSeq(lastRects, OfKind)

\* Corner c of a rect's quad: 0 top left, 1 bottom left, 2 top right,
\* 3 bottom right, as numerators over the half size of the window.
Corner(rect, c) ==
    [ x |-> rect.x - DrawSize.width \div 2 + (IF c \in {2, 3} THEN rect.width ELSE 0),
      y |-> DrawSize.height \div 2 - rect.y - (IF c \in {1, 3} THEN rect.height ELSE 0) ]

CornerOrder == << 0, 1, 2, 2, 3, 1 >>

\* C18: after a draw() the buffer of each kind holds six vertices for each
\* rect of that kind in the list, and for no other rect: the corners 0, 1, 2,
\* 2, 3, 1 of the rect's quad, the rects in the order of the list.
C18_Buckets ==
    drawn =>
        \A k \in KindIndex :
            LET rs == RectsOfKind(k)
            IN  /\ Len(vertices[k]) = 6 * Len(rs)
                /\ \A j \in 1..Len(rs) : \A c \in 1..6 :
                     LET v == vertices[k][6 * (j - 1) + c]
                         corner == Corner(rs[j], CornerOrder[c])
                     IN  v.x = corner.x /\ v.y = corner.y

\* A draw() of a RoundedBg rect followed by a different Underline rect: six
\* vertices in each of the two buffers.
C18_Witness ==
    /\ drawn
    /\ Len(lastRects) = 2
    /\ lastRects[1].kind = RoundedBg /\ lastRects[2].kind = Underline
    /\ lastRects[1].x # lastRects[2].x
    /\ Len(vertices[RoundedBg]) = 6 /\ Len(vertices[Underline]) = 6
    /\ Len(vertices[Undercurl]) = 0

(***************************************************************************)
(* Further properties of the accumulator (checked under AccSpec).          *)
(***************************************************************************)
\* The cell of the update() call that leads to the next state.
FedNow == fed'[Len(fed')]

\* The lines of new are those of old with one appended, or with the end of
\* the last one changed.
AppendedOrExtended(old, new) ==
    \/ /\ Len(new) = Len(old) + 1
       /\ SubSeq(new, 1, Len(old)) = old
    \/ /\ Len(new) = Len(old)
       /\ Len(old) >= 1
       /\ new = [old EXCEPT ![Len(old)].end = new[Len(old)].end]

\* C15: an update() of a cell that does not carry a flag leaves that flag's
\* segments as they were, whatever else the cell carries; for a flag the cell
\* carries, the flag's segments only get one segment appended or the end of the
\* last one changed.  Only the seven flags are ever keys.
C15_FlagsIndependent ==
    [][ Len(fed') = Len(fed) + 1 =>
          /\ DOMAIN inner' \subseteq DecoFlagSet
          /\ \A f \in DecoFlagSet :
               IF f \subseteq FedNow.flags
               THEN AppendedOrExtended(Lines(inner, f), Lines(inner', f))
               ELSE /\ Lines(inner', f) = Lines(inner, f)
                    /\ (f \in DOMAIN inner') = (f \in DOMAIN inner)
      ]_vars

\* An UNDERLINE cell followed, one column on, by a STRIKEOUT cell of the same
\* colors: the underline segment still ends at the first cell.
C15_Witness ==
    /\ Len(fed) = 2
    /\ fed[1].flags = UNDERLINE /\ fed[2].flags = STRIKEOUT
    /\ fed[2].point = [fed[1].point EXCEPT !.column = @ + 1]
    /\ fed[1].fg = fed[2].fg /\ fed[1].underline = fed[2].underline
    /\ Lines(inner, UNDERLINE) =
         << [ start |-> fed[1].point, end |-> fed[1].point, color |-> fed[1].underline ] >>
    /\ Len(Lines(inner, STRIKEOUT)) = 1

\* p comes before q in row-major, left-to-right order.
ScanBefore(p, q) == p.line < q.line \/ (p.line = q.line /\ p.column < q.column)

\* The cells were fed in scan order, each position at most once.
FedInScanOrder ==
    \A i \in 1..(Len(fed) - 1) : ScanBefore(fed[i].point, fed[i + 1].point)

\* Each cell was fed after the end column of the cell before it.
FedAfterEnds ==
    \A i \in 1..(Len(fed) - 1) :
        ScanBefore(Point(fed[i].point.line, EndColumn(fed[i])), fed[i + 1].point)

\* Every segment of every flag has start.col <= end.col on one row, and each
\* starts strictly after the end of the one before it.
SegmentsOrdered ==
    \A f \in DecoFlagSet :
        LET ls == Lines(inner, f)
        IN  /\ \A i \in 1..Len(ls) :
                 /\ ls[i].start.line = ls[i].end.line
                 /\ ls[i].start.column <= ls[i].end.column
            /\ \A i \in 1..(Len(ls) - 1) :
                 /\ ScanBefore(ls[i].start, ls[i + 1].start)
                 /\ ScanBefore(ls[i].end, ls[i + 1].start)

\* C19 as stated: when the cells are fed in row-major, left-to-right order,
\* each position at most once, then after any prefix each flag's segments are
\* in strictly increasing scan order, each starting strictly after the end of
\* the one before it, and start.col <= end.col for every segment.
C19_OrderedByPosition == FedInScanOrder => SegmentsOrdered

\* C19 (amended): when the cells are fed in row-major, left-to-right order,
\* each strictly after the end column of the cell before it (its column, plus
\* one for a wide character), then after any prefix each flag's segments are in
\* strictly increasing scan order, each starting strictly after the end of the
\* one before it, and start.col <= end.col for every segment.
C19_OrderedByEnd == FedAfterEnds => SegmentsOrdered

\* A wide cell at column 0 and a cell of another color at column 2: two
\* segments, the second starting after the spacer column.
C19_Witness ==
    /\ Len(fed) = 2
    /\ FedAfterEnds
    /\ fed[1].flags = UNDERLINE \cup WIDE_CHAR /\ fed[2].flags = UNDERLINE
    /\ fed[1].point = Point(0, 0) /\ fed[2].point = Point(0, 2)
    /\ Len(Lines(inner, UNDERLINE)) = 2
    /\ Lines(inner, UNDERLINE)[1].end = Point(0, 1)
    /\ Lines(inner, UNDERLINE)[2].start = Point(0, 2)

(***************************************************************************)
(* Properties of the geometry compiler (checked under GeomSpec).           *)
(***************************************************************************)
\* The i-th row sub-segment of a segment that ends on a later row.
SubStart(i) ==
    Point(gLine.start.line + i - 1, IF i = 1 THEN gLine.start.column ELSE 0)

SubEnd(i) ==
    Point(gLine.start.line + i - 1,
          IF gLine.start.line + i - 1 < gLine.end.line
          THEN gSize.last_column ELSE gLine.end.column)

\* The rects of the i-th row sub-segment, compiled on its own.
SubRects(i) ==
    push_rects([ panic |-> FALSE, rects |-> << >> ], gMetrics, gSize, gFlag,
               SubStart(i), SubEnd(i), gLine.color).rects

RECURSIVE SubRectsFrom(_, _)
SubRectsFrom(i, n) == IF i > n THEN << >> ELSE SubRects(i) \o SubRectsFrom(i + 1, n)

\* C10: a segment with start.row < end.row compiles, for each of the seven
\* flags, to the rects of one sub-segment per row from start.row to end.row:
\* from start.col on the first row and column 0 on the others, to the last
\* visible column on every row but the last and to end.col on the last; the
\* rect rows number end.row - start.row + 1 and lie one below the other.
C10_RowSplit ==
    (gDone /\ gLine.start.line < gLine.end.line /\ gFlag \in DecoFlagSet) =>
        LET n == gLine.end.line - gLine.start.line + 1
            per == IF gFlag = DOUBLE_UNDERLINE THEN 2 ELSE 1
            R(i, j) == gOut.rects[(i - 1) * per + j]
        IN  /\ ~gOut.panic
            /\ Len(gOut.rects) = n * per
            /\ gOut.rects = SubRectsFrom(1, n)
            /\ \A i \in 1..n : \A j \in 1..per :
                 /\ R(i, j).x = SubStart(i).column * gSize.cell_width + gSize.padding_x
                 /\ R(i, j).width =
                      (SubEnd(i).column + 1 - SubStart(i).column) * gSize.cell_width
                 /\ i < n => R(i, j).x + R(i, j).width =
                               (gSize.last_column + 1) * gSize.cell_width + gSize.padding_x
                 /\ i > 1 => R(i, j).x = gSize.padding_x
                 /\ i = n => R(i, j).x + R(i, j).width =
                               (gLine.end.column + 1) * gSize.cell_width + gSize.padding_x
                 /\ i < n => R(i + 1, j).y > R(i, j).y

\* A double underline over three rows: six rects.
C10_Witness ==
    /\ gDone
    /\ gFlag = DOUBLE_UNDERLINE
    /\ gLine.start = Point(0, 1)
    /\ gLine.end = Point(2, 3)
    /\ Len(gOut.rects) = 6

\* The position relative to the baseline taken for the j-th rect of a flag.
Offset(flag, j) ==
    CASE flag = DOUBLE_UNDERLINE ->
           IF j = 1 THEN gMetrics.descent \div 4 ELSE (3 * gMetrics.descent) \div 4
      [] flag \in {UNDERLINE, DASHED_UNDERLINE} -> gMetrics.underline_position
      [] flag = STRIKEOUT -> gMetrics.strikeout_position
      [] OTHER -> gMetrics.descent

\* The thickness taken for a flag from the metrics or the cell height.
SelectedThickness(flag) ==
    CASE flag \in {UNDERLINE, DOUBLE_UNDERLINE, DASHED_UNDERLINE} ->
           gMetrics.underline_thickness
      [] flag = STRIKEOUT -> gMetrics.strikeout_thickness
      [] flag = ROUNDED_BACKGROUND -> gSize.cell_height
      [] OTHER -> Abs(gMetrics.descent)

SingleRow == gLine.start.line = gLine.end.line

\* RenderLine::rects has run on a segment of one row with one of the seven flags.
CompiledRow == gDone /\ SingleRow /\ gFlag \in DecoFlagSet

\* The bottom of the segment's row: (row + 1) * cell_height.
RowBottom == (gLine.start.line + 1) * gSize.cell_height

\* C11 as stated: a single-row segment compiled with DOUBLE_UNDERLINE gives
\* exactly two rects of kind Underline, and the first (at 0.25 * descent) has a
\* y strictly less than the second (at 0.75 * descent), whatever the metrics
\* and the cell size.
C11_TopAboveBottomAlways ==
    (CompiledRow /\ gFlag = DOUBLE_UNDERLINE) =>
        /\ ~gOut.panic
        /\ Len(gOut.rects) = 2
        /\ gOut.rects[1].kind = Underline /\ gOut.rects[2].kind = Underline
        /\ gOut.rects[1].y < gOut.rects[2].y

\* C11 (amended): a single-row segment compiled with DOUBLE_UNDERLINE gives
\* exactly two rects of kind Underline; when descent <= 0 the first (at
\* 0.25 * descent) has a y no greater than the second (at 0.75 * descent), and
\* strictly less when descent <= -2 and the thickness t (after the floor at 1)
\* satisfies t < 1.5 * |descent| - 1.
C11_DoubleUnderline ==
    (CompiledRow /\ gFlag = DOUBLE_UNDERLINE) =>
        /\ ~gOut.panic
        /\ Len(gOut.rects) = 2
        /\ gOut.rects[1].kind = Underline /\ gOut.rects[2].kind = Underline
        /\ gMetrics.descent <= 0 => gOut.rects[1].y <= gOut.rects[2].y
        /\ (/\ gMetrics.descent <= -Px(2)
            /\ 2 * gOut.rects[1].height < 3 * Abs(gMetrics.descent) - Px(2))
             => gOut.rects[1].y < gOut.rects[2].y

\* A double underline with descent -4 and thickness 1: two rects, the first
\* above the second.
C11_Witness ==
    /\ CompiledRow
    /\ gFlag = DOUBLE_UNDERLINE
    /\ gMetrics.descent = -Px(4)
    /\ gMetrics.underline_thickness = Px(1)
    /\ Len(gOut.rects) = 2
    /\ gOut.rects[1].y < gOut.rects[2].y

\* RenderLine::rects has run with one of the seven flags.
Compiled == gDone /\ gFlag \in DecoFlagSet

RectsPerRow(flag) == IF flag = DOUBLE_UNDERLINE THEN 2 ELSE 1

\* The row of the n-th rect of the output, and its place among its row's rects.
RectRow(n) == gLine.start.line + (n - 1) \div RectsPerRow(gFlag)

RectSlot(n) == ((n - 1) % RectsPerRow(gFlag)) + 1

\* The bottom of the n-th rect's row, and the position its row, offset and
\* thickness give before the clamp.
RectRowBottom(n) == (RectRow(n) + 1) * gSize.cell_height

Unclamped(n) ==
    Round(RectRowBottom(n) + gMetrics.descent - Offset(gFlag, RectSlot(n))
            - gOut.rects[n].height \div 2)

\* C12 as stated: a rect's y never exceeds row_bottom - thickness (thickness
\* after the floor at 1), and equals it whenever the unclamped position
\* round(baseline - offset - thickness / 2) is greater.
C12_ClampOnRectY ==
    Compiled =>
        \A n \in 1..Len(gOut.rects) :
            LET max_y == RectRowBottom(n) - gOut.rects[n].height
            IN  /\ gOut.rects[n].y <= max_y
                /\ Unclamped(n) > max_y => gOut.rects[n].y = max_y

\* C12 (amended): a rect's y less the vertical padding never exceeds
\* row_bottom - thickness (thickness after the floor at 1), and equals it
\* whenever the unclamped position round(baseline - offset - thickness / 2) is
\* greater.
C12_Clamp ==
    Compiled =>
        \A n \in 1..Len(gOut.rects) :
            LET max_y == RectRowBottom(n) - gOut.rects[n].height
                y == gOut.rects[n].y - gSize.padding_y
            IN  /\ y <= max_y
                /\ Unclamped(n) > max_y => y = max_y

\* An underline whose position is 6 below the baseline, in a grid with
\* vertical padding: it is moved up to row_bottom - thickness.
C12_Witness ==
    /\ Compiled
    /\ gFlag = UNDERLINE
    /\ gSize.padding_y > 0
    /\ Len(gOut.rects) = 1
    /\ Unclamped(1) > RectRowBottom(1) - gOut.rects[1].height
    /\ gOut.rects[1].y - gSize.padding_y = RectRowBottom(1) - gOut.rects[1].height

\* C13: every compiled rect has a height of at least 1: exactly 1 when the
\* thickness selected for the flag is below 1, the selected thickness otherwise.
C13_ThicknessFloor ==
    Compiled =>
        \A n \in 1..Len(gOut.rects) :
            /\ gOut.rects[n].height >= Px(1)
            /\ gOut.rects[n].height =
                 (IF SelectedThickness(gFlag) < Px(1) THEN Px(1)
                  ELSE SelectedThickness(gFlag))

\* A strikeout with a negative thickness comes out 1 high.
C13_Witness ==
    /\ Compiled
    /\ gFlag = STRIKEOUT
    /\ gMetrics.strikeout_thickness < 0
    /\ Len(gOut.rects) = 1
    /\ gOut.rects[1].height = Px(1)

\* The kind the rects of a flag are drawn with.
KindOf(flag) ==
    CASE flag = UNDERCURL -> Undercurl
      [] flag = DOTTED_UNDERLINE -> UnderDotted
      [] flag = DASHED_UNDERLINE -> UnderDashed
      [] flag = ROUNDED_BACKGROUND -> RoundedBg
      [] OTHER -> Underline

\* C14: every rect has the kind fixed by its flag (UNDERLINE, DOUBLE_UNDERLINE
\* and STRIKEOUT give Underline, UNDERCURL Undercurl, DOTTED_UNDERLINE
\* UnderDotted, DASHED_UNDERLINE UnderDashed, ROUNDED_BACKGROUND RoundedBg), and
\* DOUBLE_UNDERLINE is the only flag that gives two rects per row.
C14_KindByFlag ==
    Compiled =>
        /\ \A n \in 1..Len(gOut.rects) : gOut.rects[n].kind = KindOf(gFlag)
        /\ Len(gOut.rects) =
             (gLine.end.line - gLine.start.line + 1)
               * (IF gFlag = DOUBLE_UNDERLINE THEN 2 ELSE 1)

\* A dotted underline over two rows: one UnderDotted rect per row.
C14_Witness ==
    /\ Compiled
    /\ gFlag = DOTTED_UNDERLINE
    /\ gLine.end.line = gLine.start.line + 1
    /\ Len(gOut.rects) = 2
    /\ gOut.rects[1].kind = UnderDotted /\ gOut.rects[2].kind = UnderDotted

\* C16: compiling with a flag value that is not exactly one of the seven
\* panics: no rect list is returned and the segment is not silently skipped.
C16_UnknownFlagPanics ==
    (gDone /\ gFlag \notin DecoFlagSet) => (gOut.panic /\ gOut.rects = << >>)

\* A segment compiled with UNDERLINE | STRIKEOUT has panicked.
C16_Witness ==
    /\ gDone
    /\ gFlag = UNDERLINE \cup STRIKEOUT
    /\ gOut.panic

\* The worked example: columns 0..4 of row 0, underline_position -2,
\* underline_thickness 1, cell 10 x 20, descent -4, no padding.
Example ==
    /\ gLine.start = Point(0, 0) /\ gLine.end = Point(0, 4)
    /\ gFlag = UNDERLINE
    /\ gMetrics.underline_position = -Px(2)
    /\ gMetrics.underline_thickness = Px(1)
    /\ gMetrics.descent = -Px(4)
    /\ gSize.cell_width = Px(10) /\ gSize.cell_height = Px(20)
    /\ gSize.padding_x = 0 /\ gSize.padding_y = 0

\* C17: the rects of a single-row segment have width
\* (end.col + 1 - start.col) * cell_width and x = start.col * cell_width +
\* horizontal padding; the worked example gives exactly one rect with x = 0,
\* width = 50, height = 1 and y = 18.
C17_Horizontal ==
    CompiledRow =>
        /\ \A n \in 1..Len(gOut.rects) :
              /\ gOut.rects[n].width =
                   (gLine.end.column + 1 - gLine.start.column) * gSize.cell_width
              /\ gOut.rects[n].x =
                   gLine.start.column * gSize.cell_width + gSize.padding_x
        /\ Example =>
              /\ Len(gOut.rects) = 1
              /\ gOut.rects[1].x = 0
              /\ gOut.rects[1].width = Px(50)
              /\ gOut.rects[1].height = Px(1)
              /\ gOut.rects[1].y = Px(18)

\* The worked example has been compiled.
C17_Witness ==
    /\ CompiledRow
    /\ Example
    /\ Len(gOut.rects) = 1
    /\ gOut.rects[1].width = Px(50)

====
